---- MODULE Spec2Model ----
(***************************************************************************)
(* A model of the ESP32-CAM line-following repository:                     *)
(*   - the robot cycle loop of examples/monochrome_1bit_robot.ino          *)
(*     (recovery state machine, PID controller, motor commands),           *)
(*   - the robot cycle loop of the motor-control sketch (unnamed/part_001),*)
(*   - the MonochromeLineDetection library (src/MonochromeLineDetection).  *)
(*                                                                         *)
(* Conventions.                                                            *)
(*   Time is millis(), in milliseconds.  A cycle samples it once.          *)
(*   The C floats of the PID controllers only ever hold multiples of 1/2   *)
(*   (the errors are ints, the gains 3.0, 1.5, 2.0, 1.0, 0.0), all exactly *)
(*   representable: gains and control values are held here in HALVES, so   *)
(*   Kp = 6 stands for 3.0 and control = 40 for 20.0.  previousError and   *)
(*   integral are sums of ints and are held as they are.                   *)
(*   C arrays are 0-based, TLA+ sequences 1-based: pixels[idx] is          *)
(*   buf[idx + 1].                                                         *)
(***************************************************************************)
EXTENDS Integers, Sequences, FiniteSets, TLC

VARIABLES
    sketch,             \* which program runs on the board
    now,                \* the value millis() returns in the current cycle
    currentState,       \* monochrome_1bit_robot.ino: RobotState currentState
    state,              \* part_001: RobotState state
    searchStartTime,    \* both sketches: unsigned long searchStartTime
    lastDetectionTime,  \* monochrome_1bit_robot.ino: unsigned long lastDetectionTime
    previousError,      \* both sketches: float previousError
    integral,           \* both sketches: float integral
    Kp, Ki, Kd,         \* the PID gains, in halves
    captured,           \* loop(): fb != NULL in the last cycle
    result,             \* monochrome_1bit_robot.ino loop(): MonoLineResult result
    position,           \* part_001 loop(): int position
    control,            \* the last value calculatePID returned, in halves
    motors,             \* the last PWM values written to the four motor pins
    searchEntryTime,    \* history: millis() when the search in progress began, else 0
    threshold,          \* MonochromeLineDetection::_threshold
    minLineWidth,       \* MonochromeLineDetection::_minLineWidth
    fb,                 \* the frame handed to the library
    binary,             \* the output buffer of convertToBinary
    op,                 \* the library call made last
    ret,                \* the MonoLineResult the last library call returned
    binaryThreshold,    \* part_003: int binaryThreshold
    invertColors,       \* part_003: bool invertColors
    settings,           \* part_003: settings.brightness, settings.contrast
    lineCenterX,        \* part_003: int lineCenterX
    lineCenterTop,      \* part_003, simple_line_detection.ino: int lineCenterTop
    lineCenterMiddle,   \* part_003, simple_line_detection.ino: int lineCenterMiddle
    lineCenterBottom,   \* part_003, simple_line_detection.ino: int lineCenterBottom
    displacement,       \* detectCurveAndTurn: float displacement, in sixths
    turnDirection,      \* part_003: String turnDirection
    sharpTurnDetected,  \* part_003, simple_line_detection.ino: bool sharpTurnDetected
    serial,             \* the last line calibrateCamera printed on Serial
    request,            \* the path of the HTTP request served last
    response,           \* the HTTP response sent last
    positionPercent,    \* simple_line_detection.ino loop(): int positionPercent
    staleRead           \* history: the last cycle read the frame after returning it

vars == <<sketch, now, currentState, state, searchStartTime, lastDetectionTime,
          previousError, integral, Kp, Ki, Kd, captured, result, position, control,
          motors, searchEntryTime, threshold, minLineWidth, fb, binary, op, ret,
          binaryThreshold, invertColors, settings, lineCenterX, lineCenterTop,
          lineCenterMiddle, lineCenterBottom, displacement, turnDirection,
          sharpTurnDetected, serial, request, response, positionPercent, staleRead>>

\* The variables of the library harness, which the cycle loops leave alone.
libVars == <<fb, binary, op, ret>>

\* The variables of the web-server sketch and of the simple detection sketch.
webVars == <<binaryThreshold, invertColors, settings, lineCenterX, lineCenterTop,
             lineCenterMiddle, lineCenterBottom, displacement, turnDirection,
             sharpTurnDetected, serial, request, response, positionPercent,
             staleRead>>

----------------------------------------------------------------------------
(* Integer helpers *)

\* C integer division truncates toward zero.
CDiv(a, b) == IF a >= 0 THEN a \div b ELSE -((-a) \div b)

\* millis() - start in unsigned long arithmetic.  millis() wraps after 2^32 ms
\* (49 days); the clock of the model stops at MaxTime, long before, and no
\* stored time is ahead of the clock, so the difference never wraps.
Elapsed(t, start) == t - start

\* Constrain without the upper limit.
Constrain_lowerOnly(x, lo, hi) == IF x < lo THEN lo ELSE x

\* constrain(x, lo, hi) of Arduino.
Constrain(x, lo, hi) == IF x < lo THEN lo ELSE IF x > hi THEN hi ELSE x

SetMin(S) == CHOOSE x \in S : \A y \in S : x <= y
SetMax(S) == CHOOSE x \in S : \A y \in S : x >= y

----------------------------------------------------------------------------
(* Frames: camera_fb_t.  NullFrame is the NULL pointer esp_camera_fb_get()  *)
(* returns when the capture fails.                                         *)

NullFrame == [valid |-> FALSE, len |-> 0, format |-> "NONE", width |-> 0,
              height |-> 0, buf |-> << >>]

\* A grayscale frame of w x h pixels, black (0) at columns a..b of the rows in
\* `rows`, white (255) elsewhere.
LineFrame(w, h, a, b, rows) ==
    [valid |-> TRUE, len |-> w * h, format |-> "PIXFORMAT_GRAYSCALE",
     width |-> w, height |-> h,
     buf |-> [i \in 1..(w * h) |->
                IF ((i - 1) \div w) \in rows /\ ((i - 1) % w) \in a..b
                THEN 0 ELSE 255]]

----------------------------------------------------------------------------
(* src/MonochromeLineDetection: the library *)

MONO_SCAN_ROWS == 8

\* (int)(height * MONO_ROI_START), MONO_ROI_START = 0.6: the double product
\* truncates to (6 * height) / 10 for every height below 200.
RoiStart(height) == (height * 6) \div 10

ScanStep(height) ==
    LET s == CDiv(height - RoiStart(height), MONO_SCAN_ROWS)
    IN  IF s < 1 THEN 1 ELSE s

\* The rows the for loop of detectLine / detectLineInBinary visits.
ScannedRows(height) ==
    {row \in RoiStart(height)..(height - 1) :
        (row - RoiStart(height)) % ScanStep(height) = 0}

\* The columns of `row` whose pixel is below the threshold.
DarkColumns(pixels, width, row, thr) ==
    {x \in 0..(width - 1) : pixels[row * width + x + 1] < thr}

\* WideEnough counting one pixel more.
WideEnough_generous(darkStart, darkEnd, minW) == (darkEnd - darkStart + 2) >= minW

\* The width test of scanRowForLine.
WideEnough(darkStart, darkEnd, minW) == (darkEnd - darkStart + 1) >= minW

\* scanRowForLine returning the position in thousandths of the width.
scanRowForLine_perMille(pixels, width, row, thr, minW) ==
    LET dark == DarkColumns(pixels, width, row, thr)
        darkStart == IF dark = {} THEN -1 ELSE SetMin(dark)
        darkEnd == IF dark = {} THEN -1 ELSE SetMax(dark)
    IN  IF darkStart # -1 /\ WideEnough(darkStart, darkEnd, minW)
        THEN CDiv(CDiv(darkStart + darkEnd, 2) * 1000, width)
        ELSE -1

\* scanRowForLine taking the percentage of the centre without truncating the
\* centre to a pixel first.
scanRowForLine_exactCentre(pixels, width, row, thr, minW) ==
    LET dark == DarkColumns(pixels, width, row, thr)
        darkStart == IF dark = {} THEN -1 ELSE SetMin(dark)
        darkEnd == IF dark = {} THEN -1 ELSE SetMax(dark)
    IN  IF darkStart # -1 /\ WideEnough(darkStart, darkEnd, minW)
        THEN CDiv((darkStart + darkEnd) * 100, 2 * width)
        ELSE -1

\* scanRowForLine: the position (percent) of the row's line, or -1.
scanRowForLine(pixels, width, row, thr, minW) ==
    LET dark == DarkColumns(pixels, width, row, thr)
        darkStart == IF dark = {} THEN -1 ELSE SetMin(dark)
        darkEnd == IF dark = {} THEN -1 ELSE SetMax(dark)
    IN  IF darkStart # -1 /\ WideEnough(darkStart, darkEnd, minW)
        THEN CDiv(CDiv(darkStart + darkEnd, 2) * 100, width)
        ELSE -1

\* The two parts of calculateConfidence.
ConsistencyScore(detectionCount, totalScans) == CDiv(detectionCount * 70, totalScans)

WidthScore(width, minW) ==
    IF width >= minW /\ width <= 50 THEN 30
    ELSE IF width > 50 THEN 15 ELSE 0

calculateConfidence(width, detectionCount, totalScans, minW) ==
    ConsistencyScore(detectionCount, totalScans) + WidthScore(width, minW)

\* MonoLineResult result = {false, 0, 0, 0, 0}
EmptyResult == [detected |-> FALSE, position |-> 0, width |-> 0,
                confidence |-> 0, deviation |-> 0]

\* DarkPixelCount as the length of the interval from the first to the last
\* dark pixel.
DarkPixelCount_interval(pixels, width, row, thr) ==
    SetMax(DarkColumns(pixels, width, row, thr))
    - SetMin(DarkColumns(pixels, width, row, thr)) + 1

\* darkPixels: the number of pixels of the row below the threshold.
DarkPixelCount(pixels, width, row, thr) ==
    Cardinality(DarkColumns(pixels, width, row, thr))

\* The accumulators of detectLine after the rows in `rows` (a set) were scanned.
RECURSIVE ScanGray(_, _, _, _, _)
ScanGray(pixels, width, rows, thr, minW) ==
    IF rows = {} THEN [totalPosition |-> 0, totalWidth |-> 0, detectionCount |-> 0]
    ELSE LET row == SetMax(rows)
             acc == ScanGray(pixels, width, rows \ {row}, thr, minW)
             linePos == scanRowForLine(pixels, width, row, thr, minW)
             darkPixels == DarkPixelCount(pixels, width, row, thr)
         IN  IF linePos >= 0
             THEN [totalPosition |-> acc.totalPosition + linePos,
                   totalWidth |-> acc.totalWidth + darkPixels,
                   detectionCount |-> acc.detectionCount + 1]
             ELSE acc

\* BuildResult with the deviation taken from the wrong side.
BuildResult_mirrored(acc, minW) ==
    IF acc.detectionCount > 0
    THEN LET pos == CDiv(acc.totalPosition, acc.detectionCount)
             wid == CDiv(acc.totalWidth, acc.detectionCount)
         IN  [detected |-> TRUE, position |-> pos, width |-> wid,
              confidence |-> calculateConfidence(wid, acc.detectionCount,
                                                 MONO_SCAN_ROWS, minW),
              deviation |-> 50 - pos]
    ELSE EmptyResult

\* The result detectLine builds from its accumulators.
BuildResult(acc, minW) ==
    IF acc.detectionCount > 0
    THEN LET pos == CDiv(acc.totalPosition, acc.detectionCount)
             wid == CDiv(acc.totalWidth, acc.detectionCount)
         IN  [detected |-> TRUE, position |-> pos, width |-> wid,
              confidence |-> calculateConfidence(wid, acc.detectionCount,
                                                 MONO_SCAN_ROWS, minW),
              deviation |-> pos - 50]
    ELSE EmptyResult

\* The format test of detectLine.
FormatAccepted(format) ==
    format = "PIXFORMAT_GRAYSCALE" \/ format = "PIXFORMAT_RGB565"

detectLine(frame, thr, minW) ==
    IF ~frame.valid \/ frame.len = 0 THEN EmptyResult
    ELSE IF ~FormatAccepted(frame.format) THEN EmptyResult
    ELSE BuildResult(ScanGray(frame.buf, frame.width, ScannedRows(frame.height), thr, minW),
                     minW)

\* convertToBinary setting a bit only when the pixel is above the threshold.
convertToBinary_strict(grayscale, width, height, thr) ==
    LET outputSize == CDiv(width * height + 7, 8)
        Bit(byteIdx, j) ==
            LET pixelIdx == 8 * byteIdx + j
            IN  IF pixelIdx < width * height /\ grayscale[pixelIdx + 1] > thr
                THEN 2 ^ (7 - j) ELSE 0
    IN  [b \in 1..outputSize |->
            Bit(b - 1, 0) + Bit(b - 1, 1) + Bit(b - 1, 2) + Bit(b - 1, 3)
            + Bit(b - 1, 4) + Bit(b - 1, 5) + Bit(b - 1, 6) + Bit(b - 1, 7)]

\* convertToBinary: the packed output, (width * height + 7) / 8 bytes, bit 7 of
\* byte 0 first; a bit is set when the pixel is >= the threshold.
convertToBinary(grayscale, width, height, thr) ==
    LET outputSize == CDiv(width * height + 7, 8)
        Bit(byteIdx, j) ==
            LET pixelIdx == 8 * byteIdx + j
            IN  IF pixelIdx < width * height /\ grayscale[pixelIdx + 1] >= thr
                THEN 2 ^ (7 - j) ELSE 0
    IN  [b \in 1..outputSize |->
            Bit(b - 1, 0) + Bit(b - 1, 1) + Bit(b - 1, 2) + Bit(b - 1, 3)
            + Bit(b - 1, 4) + Bit(b - 1, 5) + Bit(b - 1, 6) + Bit(b - 1, 7)]

\* bool isWhite = (binary[byteIdx] >> bitPos) & 1
IsWhite(bin, pixelIdx) ==
    LET byteIdx == CDiv(pixelIdx, 8)
        bitPos == 7 - (pixelIdx % 8)
    IN  (bin[byteIdx + 1] \div (2 ^ bitPos)) % 2 = 1

\* The accumulators of detectLineInBinary after the rows in `rows` were scanned.
RECURSIVE ScanBinary(_, _, _, _)
ScanBinary(bin, width, rows, minW) ==
    IF rows = {} THEN [totalPosition |-> 0, totalWidth |-> 0, detectionCount |-> 0]
    ELSE LET row == SetMax(rows)
             acc == ScanBinary(bin, width, rows \ {row}, minW)
             dark == {x \in 0..(width - 1) : ~IsWhite(bin, row * width + x)}
             darkStart == IF dark = {} THEN -1 ELSE SetMin(dark)
             darkEnd == IF dark = {} THEN -1 ELSE SetMax(dark)
             darkPixels == Cardinality(dark)
         IN  IF darkStart # -1 /\ (darkEnd - darkStart + 1) >= minW
             THEN [totalPosition |-> acc.totalPosition
                       + CDiv(CDiv(darkStart + darkEnd, 2) * 100, width),
                   totalWidth |-> acc.totalWidth + darkPixels,
                   detectionCount |-> acc.detectionCount + 1]
             ELSE acc

\* The result detectLineInBinary builds from its accumulators.
BuildResultBinary(acc, minW) ==
    IF acc.detectionCount > 0
    THEN LET pos == CDiv(acc.totalPosition, acc.detectionCount)
             wid == CDiv(acc.totalWidth, acc.detectionCount)
         IN  [detected |-> TRUE, position |-> pos, width |-> wid,
              confidence |-> calculateConfidence(wid, acc.detectionCount,
                                                 MONO_SCAN_ROWS, minW),
              deviation |-> pos - 50]
    ELSE EmptyResult

detectLineInBinary(bin, width, height, minW) ==
    BuildResultBinary(ScanBinary(bin, width, ScannedRows(height), minW), minW)

----------------------------------------------------------------------------
(* examples/monochrome_1bit_robot.ino *)

BASE_SPEED == 180
MAX_SPEED == 255
MIN_SPEED == 80
TURN_SPEED == 120
PID_KP == 6                 \* 3.0, in halves
PID_KI == 0                 \* 0.0
PID_KD == 3                 \* 1.5, in halves
DETECTION_THRESHOLD == 128
MIN_LINE_WIDTH == 5
CONFIDENCE_MIN == 40
SetupDelay == 3000          \* delay(3000) at the end of setup()

\* stopMotors leaving the right motor running.
stopMotors_rightOn == [lf |-> 0, lb |-> 0, rf |-> TURN_SPEED, rb |-> 0]

\* The PWM values of the pins MOTOR_LEFT_FWD, MOTOR_LEFT_BWD, MOTOR_RIGHT_FWD,
\* MOTOR_RIGHT_BWD after each motor routine.
stopMotors == [lf |-> 0, lb |-> 0, rf |-> 0, rb |-> 0]
turnLeft == [lf |-> 0, lb |-> TURN_SPEED, rf |-> TURN_SPEED, rb |-> 0]
turnRight == [lf |-> TURN_SPEED, lb |-> 0, rf |-> 0, rb |-> TURN_SPEED]
moveForward(speed) == [lf |-> speed, lb |-> 0, rf |-> speed, rb |-> 0]

\* setMotorSpeeds(control): int leftSpeed = BASE_SPEED + control truncates the
\* float sum; control is in halves.
setMotorSpeeds(ctl) ==
    LET leftSpeed == CDiv(2 * BASE_SPEED + ctl, 2)
        rightSpeed == CDiv(2 * BASE_SPEED - ctl, 2)
    IN  [lf |-> Constrain(leftSpeed, MIN_SPEED, MAX_SPEED), lb |-> 0,
         rf |-> Constrain(rightSpeed, MIN_SPEED, MAX_SPEED), rb |-> 0]

\* The anti-windup limit of calculatePID.
LimitIntegral(i) == IF i > 50 THEN 50 ELSE IF i < -50 THEN -50 ELSE i

\* LimitControl without the upper limit.
LimitControl_lowerOnly(c) == IF c < -200 THEN -200 ELSE c

\* The output limit of calculatePID; 200 halves = 100.
LimitControl(c) == IF c > 200 THEN 200 ELSE IF c < -200 THEN -200 ELSE c

\* calculatePID(error) on the controller state (prev, integ) under the gains
\* (kp, ki, kd): the value returned and the state left behind.
calculatePID(error, prev, integ, kp, ki, kd) ==
    LET P == kp * error
        newIntegral == LimitIntegral(integ + error)
        I == ki * newIntegral
        D == kd * (error - prev)
    IN  [control |-> LimitControl(P + I + D),
         previousError |-> error,
         integral |-> newIntegral]

\* The controller state handleLineDetected starts calculatePID from: reset when
\* the robot was not FOLLOWING.
PIDStateOnDetection(st, prev, integ) ==
    IF st # "FOLLOWING" THEN [previousError |-> 0, integral |-> 0]
    ELSE [previousError |-> prev, integral |-> integ]

\* handleLineDetected(result, processTime), millis() = t.
handleLineDetected(res, t) ==
    LET start == PIDStateOnDetection(currentState, previousError, integral)
        pid == calculatePID(res.deviation, start.previousError, start.integral,
                            Kp, Ki, Kd)
    IN  /\ lastDetectionTime' = t
        /\ currentState' = "FOLLOWING"
        /\ previousError' = pid.previousError
        /\ integral' = pid.integral
        /\ control' = pid.control
        /\ motors' = setMotorSpeeds(pid.control)
        /\ searchEntryTime' = 0
        /\ UNCHANGED searchStartTime

\* SearchRightTimeout firing already at 1500.
SearchRightTimeout_atLimit(elapsed) == elapsed >= 1500

\* SearchRightTimeout that never fires.
SearchRightTimeout_never(elapsed) == FALSE

\* The three timeouts of handleLineNotDetected.
LostTimeout(elapsed) == elapsed > 300
SearchLeftTimeout(elapsed) == elapsed > 800
SearchRightTimeout(elapsed) == elapsed > 1500

\* ReverseSearchCommand repeating the command of SEARCHING_LEFT.
ReverseSearchCommand_same == turnLeft

\* The motor command of the SEARCHING_LEFT -> SEARCHING_RIGHT change.
ReverseSearchCommand == turnRight

\* handleLineNotDetected(processTime), millis() = t.
handleLineNotDetected(t) ==
    LET timeSinceDetection == Elapsed(t, lastDetectionTime)
    IN  /\ UNCHANGED <<lastDetectionTime, previousError, integral, control>>
        /\ CASE currentState = "FOLLOWING" ->
                   IF LostTimeout(timeSinceDetection)
                   THEN /\ currentState' = "SEARCHING_LEFT"
                        /\ searchStartTime' = t
                        /\ searchEntryTime' = t
                        /\ motors' = turnLeft
                   ELSE /\ motors' = moveForward(BASE_SPEED)
                        /\ UNCHANGED <<currentState, searchStartTime, searchEntryTime>>
             [] currentState = "SEARCHING_LEFT" ->
                   IF SearchLeftTimeout(Elapsed(t, searchStartTime))
                   THEN /\ currentState' = "SEARCHING_RIGHT"
                        /\ searchStartTime' = t
                        /\ motors' = ReverseSearchCommand
                        /\ UNCHANGED searchEntryTime
                   ELSE UNCHANGED <<currentState, searchStartTime, searchEntryTime,
                                    motors>>
             [] currentState = "SEARCHING_RIGHT" ->
                   IF SearchRightTimeout(Elapsed(t, searchStartTime))
                   THEN /\ currentState' = "LINE_LOST"
                        /\ motors' = stopMotors
                        /\ UNCHANGED <<searchStartTime, searchEntryTime>>
                   ELSE UNCHANGED <<currentState, searchStartTime, searchEntryTime,
                                    motors>>
             [] currentState = "LINE_LOST" ->
                   /\ motors' = stopMotors
                   /\ UNCHANGED <<currentState, searchStartTime, searchEntryTime>>
             [] OTHER ->
                   /\ motors' = stopMotors
                   /\ UNCHANGED <<currentState, searchStartTime, searchEntryTime>>

\* LineTrusted with a confidence limit of 50.
LineTrusted_strict(res) == res.detected /\ res.confidence >= 50

\* The test loop() dispatches on.
LineTrusted(res) == res.detected /\ res.confidence >= CONFIDENCE_MIN

\* The frames the camera delivers to the 1-bit robot, at a reduced resolution of
\* 20 x 5 (rows 3 and 4 are scanned): no line; a line in both scanned rows at the
\* centre and at the right; a line in one scanned row only (detected, but with
\* confidence 38, below CONFIDENCE_MIN).
RobotFrames ==
    {LineFrame(20, 5, 0, -1, {}),
     LineFrame(20, 5, 8, 12, {3, 4}),
     LineFrame(20, 5, 13, 17, {3, 4}),
     LineFrame(20, 5, 8, 12, {3})}

\* The time one cycle takes (capture, detection, delay), in ms.
CycleTimes == {100, 200}

\* loop() with the frame esp_camera_fb_get() returned, d ms after the last cycle.
loop(frame, d) ==
    /\ sketch = "monochrome_1bit_robot"
    /\ now' = now + d
    /\ UNCHANGED <<sketch, state, position, Kp, Ki, Kd, threshold, minLineWidth,
                   libVars, webVars>>
    /\ IF ~frame.valid
       THEN /\ captured' = FALSE
            /\ motors' = stopMotors
            /\ UNCHANGED <<currentState, searchStartTime, lastDetectionTime,
                           previousError, integral, result, control,
                           searchEntryTime>>
       ELSE LET res == detectLine(frame, threshold, minLineWidth)
            IN  /\ captured' = TRUE
                /\ result' = res
                /\ IF LineTrusted(res)
                   THEN handleLineDetected(res, now')
                   ELSE handleLineNotDetected(now')

----------------------------------------------------------------------------
(* unnamed/part_001: the motor-control sketch *)

mc_LINE_THRESHOLD == 128
mc_MIN_LINE_WIDTH == 10
mc_BASE_SPEED == 150
mc_MAX_SPEED == 255
mc_MIN_SPEED == 50
mc_Kp == 4                  \* float Kp = 2.0, in halves
mc_Ki == 0                  \* float Ki = 0.0
mc_Kd == 2                  \* float Kd = 1.0, in halves
mc_SetupDelay == 2000       \* delay(2000) at the end of setup()

mc_turnLeft == [lf |-> 0, lb |-> mc_BASE_SPEED \div 2,
                rf |-> mc_BASE_SPEED \div 2, rb |-> 0]
mc_turnRight == [lf |-> mc_BASE_SPEED \div 2, lb |-> 0,
                 rf |-> 0, rb |-> mc_BASE_SPEED \div 2]

\* setMotorSpeeds(control); the constrained speeds are never negative.
mc_setMotorSpeeds(ctl) ==
    LET leftSpeed == Constrain(CDiv(2 * mc_BASE_SPEED + ctl, 2), mc_MIN_SPEED, mc_MAX_SPEED)
        rightSpeed == Constrain(CDiv(2 * mc_BASE_SPEED - ctl, 2), mc_MIN_SPEED, mc_MAX_SPEED)
    IN  [lf |-> IF leftSpeed >= 0 THEN leftSpeed ELSE 0,
         lb |-> IF leftSpeed >= 0 THEN 0 ELSE -leftSpeed,
         rf |-> IF rightSpeed >= 0 THEN rightSpeed ELSE 0,
         rb |-> IF rightSpeed >= 0 THEN 0 ELSE -rightSpeed]

\* The row scan of detectLine: the first dark run of the row, [darkStart, darkEnd],
\* or [-1, -1] when the row has no dark pixel.
mc_FirstRun(pixels, width, row) ==
    LET dark == {x \in 0..(width - 1) : pixels[row * width + x + 1] < mc_LINE_THRESHOLD}
        darkStart == IF dark = {} THEN -1 ELSE SetMin(dark)
        after == {x \in 0..(width - 1) : x > darkStart /\ x \notin dark}
        darkEnd == IF dark = {} THEN -1
                   ELSE IF after = {} THEN width - 1 ELSE SetMin(after) - 1
    IN  [darkStart |-> darkStart, darkEnd |-> darkEnd]

RECURSIVE mc_ScanRows(_, _, _)
mc_ScanRows(pixels, width, rows) ==
    IF rows = {} THEN [totalPosition |-> 0, detectionCount |-> 0]
    ELSE LET row == SetMax(rows)
             acc == mc_ScanRows(pixels, width, rows \ {row})
             run == mc_FirstRun(pixels, width, row)
         IN  IF run.darkStart # -1 /\ run.darkEnd # -1
                /\ (run.darkEnd - run.darkStart) >= mc_MIN_LINE_WIDTH
             THEN [totalPosition |-> acc.totalPosition
                       + CDiv(CDiv(run.darkStart + run.darkEnd, 2) * 100, width),
                   detectionCount |-> acc.detectionCount + 1]
             ELSE acc

\* int detectLine(camera_fb_t* fb): the position in percent, or -1.
mc_detectLine(frame) ==
    IF ~frame.valid \/ frame.len = 0 THEN -1
    ELSE LET startRow == CDiv(frame.height, 3)
             endRow == CDiv(2 * frame.height, 3)
             rows == {row \in startRow..(endRow - 1) : (row - startRow) % 5 = 0}
             acc == mc_ScanRows(frame.buf, frame.width, rows)
         IN  IF acc.detectionCount > 0
             THEN CDiv(acc.totalPosition, acc.detectionCount)
             ELSE -1

\* The output limit of calculatePID; 200 halves = 100.
mc_LimitControl(c) == IF c > 200 THEN 200 ELSE IF c < -200 THEN -200 ELSE c

\* calculatePID(error): no limit on the integral.
mc_calculatePID(error, prev, integ, kp, ki, kd) ==
    LET P == kp * error
        newIntegral == integ + error
        I == ki * newIntegral
        D == kd * (error - prev)
    IN  [control |-> mc_LimitControl(P + I + D),
         previousError |-> error,
         integral |-> newIntegral]

\* handleLineLost(), millis() = t.
mc_handleLineLost(t) ==
    /\ UNCHANGED <<previousError, integral, control>>
    /\ CASE state = "FOLLOWING" ->
               /\ state' = "SEARCHING_LEFT"
               /\ searchStartTime' = t
               /\ motors' = mc_turnLeft
         [] state = "SEARCHING_LEFT" ->
               IF Elapsed(t, searchStartTime) > 1000
               THEN /\ state' = "SEARCHING_RIGHT"
                    /\ searchStartTime' = t
                    /\ motors' = mc_turnRight
               ELSE UNCHANGED <<state, searchStartTime, motors>>
         [] state = "SEARCHING_RIGHT" ->
               IF Elapsed(t, searchStartTime) > 1000
               THEN /\ state' = "STOPPED"
                    /\ motors' = stopMotors
                    /\ UNCHANGED searchStartTime
               ELSE UNCHANGED <<state, searchStartTime, motors>>
         [] state = "STOPPED" ->
               /\ motors' = stopMotors
               /\ UNCHANGED <<state, searchStartTime>>

\* The frames the camera delivers to the motor-control sketch, at a reduced
\* resolution of 20 x 3 (row 1 is scanned): no line; a line at the centre and at
\* the right.
mc_Frames ==
    {LineFrame(20, 3, 0, -1, {}),
     LineFrame(20, 3, 5, 15, {1}),
     LineFrame(20, 3, 9, 19, {1})}

\* The integral of this sketch has no limit: the model stops a run that would
\* take it beyond this one.
MaxIntegral == 100

\* loop() with the frame esp_camera_fb_get() returned, d ms after the last cycle.
mc_loop(frame, d) ==
    /\ sketch = "motor_control"
    /\ now' = now + d
    /\ UNCHANGED <<sketch, currentState, lastDetectionTime, searchEntryTime,
                   result, Kp, Ki, Kd, threshold, minLineWidth, libVars, webVars>>
    /\ IF ~frame.valid
       THEN /\ captured' = FALSE
            /\ motors' = stopMotors
            /\ UNCHANGED <<state, searchStartTime, previousError, integral,
                           position, control>>
       ELSE LET pos == mc_detectLine(frame)
            IN  /\ captured' = TRUE
                /\ position' = pos
                /\ IF pos >= 0
                   THEN LET pid == mc_calculatePID(pos - 50, previousError,
                                                   integral, Kp, Ki, Kd)
                        IN  /\ pid.integral <= MaxIntegral
                            /\ pid.integral >= -MaxIntegral
                            /\ state' = "FOLLOWING"
                            /\ previousError' = pid.previousError
                            /\ integral' = pid.integral
                            /\ control' = pid.control
                            /\ motors' = mc_setMotorSpeeds(pid.control)
                            /\ UNCHANGED searchStartTime
                   ELSE mc_handleLineLost(now')

----------------------------------------------------------------------------
(* unnamed/part_003 (second program, from line 1294): the web-server sketch *)

\* The sum of f[x] over the x in S.
RECURSIVE Sum(_, _)
Sum(f, S) ==
    IF S = {} THEN 0
    ELSE LET x == CHOOSE y \in S : TRUE
         IN  f[x] + Sum(f, S \ {x})

\* convertTo1Bit: both branches of the loop body are the same assignment.
convertTo1Bit(buf, thr) ==
    [i \in DOMAIN buf |-> IF buf[i] < thr THEN 0 ELSE 255]

\* histogram[v] after the loop over fb->buf.
Histogram(buf, v) == Cardinality({i \in DOMAIN buf : buf[i] = v})

\* FindPeak returning the lowest bin present instead of the tallest.
FindPeak_lowest(buf, lo, hi) ==
    LET present == {buf[i] : i \in DOMAIN buf} \cap (lo..hi)
    IN  IF present = {} THEN [max |-> 0, idx |-> 0]
        ELSE [max |-> Histogram(buf, SetMin(present)), idx |-> SetMin(present)]

\* A peak search of calibrateCamera over the bins lo..hi: the tallest bin, the
\* first one of several equally tall; [max |-> 0, idx |-> 0] when all are empty.
FindPeak(buf, lo, hi) ==
    LET present == {buf[i] : i \in DOMAIN buf} \cap (lo..hi)
    IN  IF present = {} THEN [max |-> 0, idx |-> 0]
        ELSE LET top == SetMax({Histogram(buf, v) : v \in present})
             IN  [max |-> top,
                  idx |-> SetMin({v \in present : Histogram(buf, v) = top})]

\* edgeSum / edgeCount: the top and bottom rows, then the left and right
\* columns of the rows between them.
EdgeAvg(buf, width, height) ==
    LET rowsSum == Sum([x \in 0..(width - 1) |->
                          buf[x + 1] + buf[(height - 1) * width + x + 1]],
                       0..(width - 1))
        colsSum == Sum([y \in 1..(height - 2) |->
                          buf[y * width + 1] + buf[y * width + (width - 1) + 1]],
                       1..(height - 2))
        edgeCount == 2 * width + (IF height > 2 THEN 2 * (height - 2) ELSE 0)
    IN  CDiv(rowsSum + colsSum, edgeCount)

\* CalibratedInvert inverting also when the edge average equals the threshold.
CalibratedInvert_orEqual(edgeAvg, thr) == edgeAvg <= thr

\* invertColors = (edgeAvg < binaryThreshold)
CalibratedInvert(edgeAvg, thr) == edgeAvg < thr

\* TwoPeaksFound satisfied by a single peak.
TwoPeaksFound_either(peak1, peak2) == peak1.max > 0 \/ peak2.max > 0

\* if (maxPeak1 > 0 && maxPeak2 > 0)
TwoPeaksFound(peak1, peak2) == peak1.max > 0 /\ peak2.max > 0

\* calibrateCamera() on the frame esp_camera_fb_get() returned, from the
\* calibration state (thr, inv): the state it leaves and the line it prints.
calibrateCamera(frame, thr, inv) ==
    IF ~frame.valid
    THEN [binaryThreshold |-> thr, invertColors |-> inv,
          serial |-> "Camera capture failed during calibration"]
    ELSE IF frame.format # "PIXFORMAT_GRAYSCALE"
    THEN [binaryThreshold |-> thr, invertColors |-> inv,
          serial |-> "Expected grayscale format"]
    ELSE LET peak1 == FindPeak(frame.buf, 0, 127)
             peak2 == FindPeak(frame.buf, 128, 255)
         IN  IF TwoPeaksFound(peak1, peak2)
             THEN LET newThr == CDiv(peak1.idx + peak2.idx, 2)
                  IN  [binaryThreshold |-> newThr,
                       invertColors |->
                           CalibratedInvert(EdgeAvg(frame.buf, frame.width,
                                                    frame.height), newThr),
                       serial |-> "Calibration complete"]
             ELSE [binaryThreshold |-> thr, invertColors |-> inv,
                   serial |-> "Calibration failed: could not find two peaks"]

\* RegionRowEdges with rightEdge at the last pixel of the line colour.
RegionRowEdges_merged(buf, width, row, lineColor, fieldColor) ==
    LET line == {x \in 0..(width - 1) : buf[row * width + x + 1] = lineColor}
    IN  [leftEdge |-> IF line = {} THEN -1 ELSE SetMin(line),
         rightEdge |-> IF line = {} THEN -1 ELSE SetMax(line)]

\* The row scan of detectLineCenterInRegion: leftEdge is the first pixel of the
\* line colour, rightEdge the pixel before the first field-coloured pixel after
\* it, or, when there is none, the last pixel of the line colour in the row.
RegionRowEdges(buf, width, row, lineColor, fieldColor) ==
    LET line == {x \in 0..(width - 1) : buf[row * width + x + 1] = lineColor}
        leftEdge == IF line = {} THEN -1 ELSE SetMin(line)
        fieldAfter == {x \in 0..(width - 1) :
                          x > leftEdge /\ buf[row * width + x + 1] = fieldColor}
        rightEdge == IF line = {} THEN -1
                     ELSE IF fieldAfter # {} THEN SetMin(fieldAfter) - 1
                     ELSE SetMax(line)
    IN  [leftEdge |-> leftEdge, rightEdge |-> rightEdge]

\* The rows a region scan visits: startRow, startRow + 3, ... below endRow.
RegionRows(startRow, endRow) ==
    {row \in startRow..(endRow - 1) : (row - startRow) % 3 = 0}

\* The accumulators of detectLineCenterInRegion after the rows in `rows`.
RECURSIVE RegionScan(_, _, _, _, _)
RegionScan(buf, width, rows, lineColor, fieldColor) ==
    IF rows = {} THEN [totalLeftEdge |-> 0, totalRightEdge |-> 0, detectionCount |-> 0]
    ELSE LET row == SetMax(rows)
             acc == RegionScan(buf, width, rows \ {row}, lineColor, fieldColor)
             e == RegionRowEdges(buf, width, row, lineColor, fieldColor)
         IN  IF e.leftEdge # -1 /\ e.rightEdge # -1 /\ (e.rightEdge - e.leftEdge) >= 5
             THEN [totalLeftEdge |-> acc.totalLeftEdge + e.leftEdge,
                   totalRightEdge |-> acc.totalRightEdge + e.rightEdge,
                   detectionCount |-> acc.detectionCount + 1]
             ELSE acc

\* detectLineCenterInRegion: the value it leaves in centerX.
detectLineCenterInRegion(buf, width, startRow, endRow, inv) ==
    LET lineColor == IF inv THEN 255 ELSE 0
        fieldColor == IF inv THEN 0 ELSE 255
        acc == RegionScan(buf, width, RegionRows(startRow, endRow), lineColor,
                          fieldColor)
    IN  IF acc.detectionCount > 0
        THEN CDiv(CDiv(acc.totalLeftEdge, acc.detectionCount)
                  + CDiv(acc.totalRightEdge, acc.detectionCount), 2)
        ELSE -1

\* The sum of the comparisons of detectCurveAndTurn, doubled (the third one has
\* the weight 0.5), and their number.
CurveComparisons(top, middle, bottom) ==
    LET bm == bottom >= 0 /\ middle >= 0
        mt == middle >= 0 /\ top >= 0
        bt == bottom >= 0 /\ top >= 0
    IN  [sum2 |-> (IF bm THEN 2 * ((IF top >= 0 THEN middle ELSE bottom) - middle)
                   ELSE 0)
                  + (IF mt THEN 2 * (middle - top) ELSE 0)
                  + (IF bt THEN bottom - top ELSE 0),
         validComparisons |-> (IF bm THEN 1 ELSE 0) + (IF mt THEN 1 ELSE 0)
                              + (IF bt THEN 1 ELSE 0)]

Abs(x) == IF x < 0 THEN -x ELSE x

\* abs(curveAngle) > 30.0 with curveAngle = atan(displacement / (width * 0.4))
\* * 180.0 / 3.14159, for a displacement of d6 sixths: the displacement exceeds
\* tan(30 * 3.14159 / 180) * 0.4 * width = 0.230939... * width.
SharpAngle(d6, width) == Abs(d6) * 1000000 > 1385639 * width

\* detectCurveAndTurn classifying on a single detected region: the comparisons
\* taken without the >= 0 tests.
detectCurveAndTurn_oneRegion(top, middle, bottom, width) ==
    LET regionsDetected == (IF top >= 0 THEN 1 ELSE 0) + (IF middle >= 0 THEN 1 ELSE 0)
                           + (IF bottom >= 0 THEN 1 ELSE 0)
        d6 == 2 * (middle - top) + (bottom - top)
    IN  IF regionsDetected < 1
        THEN [displacement |-> 0, turnDirection |-> "straight",
              sharpTurnDetected |-> FALSE]
        ELSE IF 10 * Abs(d6) < 3 * width
        THEN [displacement |-> d6, turnDirection |-> "straight",
              sharpTurnDetected |-> FALSE]
        ELSE [displacement |-> d6,
              turnDirection |-> IF d6 > 0 THEN "right" ELSE "left",
              sharpTurnDetected |-> SharpAngle(d6, width)]

\* detectCurveAndTurn with right and left exchanged.
detectCurveAndTurn_mirrored(top, middle, bottom, width) ==
    LET regionsDetected == (IF top >= 0 THEN 1 ELSE 0) + (IF middle >= 0 THEN 1 ELSE 0)
                           + (IF bottom >= 0 THEN 1 ELSE 0)
        c == CurveComparisons(top, middle, bottom)
        d6 == (3 * c.sum2) \div c.validComparisons
    IN  IF regionsDetected < 2
        THEN [displacement |-> 0, turnDirection |-> "straight",
              sharpTurnDetected |-> FALSE]
        ELSE IF 10 * Abs(d6) < 3 * width
        THEN [displacement |-> d6, turnDirection |-> "straight",
              sharpTurnDetected |-> FALSE]
        ELSE [displacement |-> d6,
              turnDirection |-> IF d6 > 0 THEN "left" ELSE "right",
              sharpTurnDetected |-> SharpAngle(d6, width)]

\* detectCurveAndTurn(width) on the three region centres: the displacement in
\* sixths (the exact quotient, where the float holds its nearest value; 0 when
\* the function returns before computing one), turnDirection and
\* sharpTurnDetected.
detectCurveAndTurn(top, middle, bottom, width) ==
    LET regionsDetected == (IF top >= 0 THEN 1 ELSE 0) + (IF middle >= 0 THEN 1 ELSE 0)
                           + (IF bottom >= 0 THEN 1 ELSE 0)
        c == CurveComparisons(top, middle, bottom)
        d6 == (3 * c.sum2) \div c.validComparisons
    IN  IF regionsDetected < 2
        THEN [displacement |-> 0, turnDirection |-> "straight",
              sharpTurnDetected |-> FALSE]
        ELSE IF 10 * Abs(d6) < 3 * width
        THEN [displacement |-> d6, turnDirection |-> "straight",
              sharpTurnDetected |-> FALSE]
        ELSE [displacement |-> d6,
              turnDirection |-> IF d6 > 0 THEN "right" ELSE "left",
              sharpTurnDetected |-> SharpAngle(d6, width)]

\* The end of detectLineCenter: lineCenterX is the bottom centre, else the
\* middle one, else the top one.
LineCentres(top, middle, bottom) ==
    [top |-> top, middle |-> middle, bottom |-> bottom,
     x |-> IF bottom >= 0 THEN bottom
           ELSE IF middle >= 0 THEN middle
           ELSE top]

\* detectLineCenter on the 1-bit buffer: the three region centres and lineCenterX.
detectLineCenter(buf, width, height, inv) ==
    LineCentres(detectLineCenterInRegion(buf, width, CDiv(height, 6),
                                         CDiv(height, 3), inv),
                detectLineCenterInRegion(buf, width, CDiv(height, 3),
                                         CDiv(2 * height, 3), inv),
                detectLineCenterInRegion(buf, width, CDiv(2 * height, 3),
                                         CDiv(5 * height, 6), inv))

\* The variables no web handler writes.
robotVars == <<sketch, now, currentState, state, searchStartTime, lastDetectionTime,
               previousError, integral, Kp, Ki, Kd, captured, result, position,
               control, motors, searchEntryTime, threshold, minLineWidth, binary,
               op, ret, positionPercent, staleRead>>

curveVars == <<lineCenterX, lineCenterTop, lineCenterMiddle, lineCenterBottom,
               displacement, turnDirection, sharpTurnDetected>>

Respond(code, type, body) == [code |-> code, type |-> type, body |-> body]

\* GET /
handleRoot ==
    /\ sketch = "web_server"
    /\ request' = "/"
    /\ response' = Respond(200, "text/html", "main page")
    /\ UNCHANGED <<robotVars, curveVars, fb, binaryThreshold, invertColors,
                   settings, serial>>

\* GET /stream with the frame esp_camera_fb_get() returned; jpgOk is the result
\* of frame2jpg.
handleStream(frame, jpgOk) ==
    /\ sketch = "web_server"
    /\ request' = "/stream"
    /\ fb' = frame
    /\ UNCHANGED <<robotVars, binaryThreshold, invertColors, settings, serial>>
    /\ IF ~frame.valid
       THEN /\ response' = Respond(500, "text/plain", "Camera capture failed")
            /\ UNCHANGED curveVars
       ELSE IF frame.format # "PIXFORMAT_GRAYSCALE"
       THEN /\ response' = Respond(500, "text/plain", "Expected grayscale format")
            /\ UNCHANGED curveVars
       ELSE \E c \in {detectLineCenter(convertTo1Bit(frame.buf, binaryThreshold),
                                       frame.width, frame.height, invertColors)} :
            \E t \in {detectCurveAndTurn(c.top, c.middle, c.bottom, frame.width)} :
                /\ lineCenterTop' = c.top
                /\ lineCenterMiddle' = c.middle
                /\ lineCenterBottom' = c.bottom
                /\ lineCenterX' = c.x
                /\ displacement' = t.displacement
                /\ turnDirection' = t.turnDirection
                /\ sharpTurnDetected' = t.sharpTurnDetected
                /\ response' = IF jpgOk THEN Respond(200, "image/jpeg", "frame")
                               ELSE Respond(500, "text/plain", "JPEG conversion failed")

\* GET /control; hasParams: the request has both "name" and "value".
handleControl(hasParams, name, value) ==
    /\ sketch = "web_server"
    /\ request' = "/control"
    /\ UNCHANGED <<robotVars, curveVars, fb, invertColors, serial>>
    /\ IF hasParams
       THEN /\ response' = Respond(200, "text/plain", "OK")
            /\ binaryThreshold' = IF name = "threshold" THEN Constrain(value, 0, 255)
                                  ELSE binaryThreshold
            /\ settings' =
                 IF name = "brightness"
                 THEN [settings EXCEPT !.brightness = Constrain(value, -2, 2)]
                 ELSE IF name = "contrast"
                 THEN [settings EXCEPT !.contrast = Constrain(value, -2, 2)]
                 ELSE settings
       ELSE /\ response' = Respond(400, "text/plain", "Missing parameters")
            /\ UNCHANGED <<binaryThreshold, settings>>

\* GET /calibrate with the frame esp_camera_fb_get() returned.
handleCalibrate(frame) ==
    /\ sketch = "web_server"
    /\ request' = "/calibrate"
    /\ fb' = frame
    /\ \E c \in {calibrateCamera(frame, binaryThreshold, invertColors)} :
          /\ binaryThreshold' = c.binaryThreshold
          /\ invertColors' = c.invertColors
          /\ serial' = c.serial
    /\ response' = Respond(200, "text/plain", "Calibration complete")
    /\ UNCHANGED <<robotVars, curveVars, settings>>

\* GET /status: the JSON text of the current values.
handleStatus ==
    /\ sketch = "web_server"
    /\ request' = "/status"
    /\ response' = Respond(200, "application/json", "status")
    /\ UNCHANGED <<robotVars, curveVars, fb, binaryThreshold, invertColors,
                   settings, serial>>

----------------------------------------------------------------------------
(* examples/simple_line_detection.ino (second program, from line 168) *)

sl_LINE_THRESHOLD == 128
sl_MIN_LINE_WIDTH == 10

\* The row scan of detectLineInRegion: the first dark run of the row.
sl_FirstRun(pixels, width, row) ==
    LET dark == {x \in 0..(width - 1) : pixels[row * width + x + 1] < sl_LINE_THRESHOLD}
        darkStart == IF dark = {} THEN -1 ELSE SetMin(dark)
        after == {x \in 0..(width - 1) : x > darkStart /\ x \notin dark}
        darkEnd == IF dark = {} THEN -1
                   ELSE IF after = {} THEN width - 1 ELSE SetMin(after) - 1
    IN  [darkStart |-> darkStart, darkEnd |-> darkEnd]

\* The accumulators of detectLineInRegion after the rows in `rows`.
RECURSIVE sl_RegionScan(_, _, _)
sl_RegionScan(pixels, width, rows) ==
    IF rows = {} THEN [totalDarkStart |-> 0, totalDarkEnd |-> 0, detectionCount |-> 0]
    ELSE LET row == SetMax(rows)
             acc == sl_RegionScan(pixels, width, rows \ {row})
             run == sl_FirstRun(pixels, width, row)
         IN  IF run.darkStart # -1 /\ run.darkEnd # -1
                /\ (run.darkEnd - run.darkStart) >= sl_MIN_LINE_WIDTH
             THEN [totalDarkStart |-> acc.totalDarkStart + run.darkStart,
                   totalDarkEnd |-> acc.totalDarkEnd + run.darkEnd,
                   detectionCount |-> acc.detectionCount + 1]
             ELSE acc

\* detectLineInRegion: the value it leaves in centerX.
detectLineInRegion(frame, startRow, endRow) ==
    LET acc == sl_RegionScan(frame.buf, frame.width, RegionRows(startRow, endRow))
    IN  IF acc.detectionCount > 0
        THEN CDiv(CDiv(acc.totalDarkStart, acc.detectionCount)
                  + CDiv(acc.totalDarkEnd, acc.detectionCount), 2)
        ELSE -1

\* The sharp-turn test of detectLineMultiRegion: abs(curveAngle) > 30.0 for
\* curveAngle = atan(displacement / verticalDistance) * 180.0 / 3.14159.
sl_Regions(top, middle, bottom, width) ==
    [top |-> top, middle |-> middle, bottom |-> bottom,
     sharpTurnDetected |->
        IF bottom >= 0 /\ top >= 0
        THEN Abs(bottom - top) * 1000000 > 230939 * width
        ELSE IF bottom >= 0 /\ middle >= 0
        THEN Abs(bottom - middle) * 1000000 > 173204 * width
        ELSE FALSE]

\* detectLineMultiRegion: the three region centres and sharpTurnDetected.
detectLineMultiRegion(frame) ==
    sl_Regions(detectLineInRegion(frame, CDiv(frame.height, 6), CDiv(frame.height, 3)),
               detectLineInRegion(frame, CDiv(frame.height, 3),
                                  CDiv(2 * frame.height, 3)),
               detectLineInRegion(frame, CDiv(2 * frame.height, 3),
                                  CDiv(5 * frame.height, 6)),
               frame.width)

\* What fb->width can yield once esp_camera_fb_return(fb) has handed the frame
\* back to the driver: the width it held, or what the driver has put there since.
StaleWidths(width) == {width, 2 * width}

\* loop() with the frame esp_camera_fb_get() returned; w is the value the read
\* of fb->width yields after the frame was returned.
sl_loop(frame, w) ==
    /\ sketch = "simple_line_detection"
    /\ fb' = frame
    /\ UNCHANGED <<now, sketch, currentState, state, searchStartTime,
                   lastDetectionTime, previousError, integral, Kp, Ki, Kd, result,
                   position, control, motors, searchEntryTime, threshold,
                   minLineWidth, binary, op, ret, binaryThreshold, invertColors,
                   settings, lineCenterX, displacement, turnDirection, serial,
                   request, response>>
    /\ IF ~frame.valid
       THEN /\ captured' = FALSE
            /\ staleRead' = FALSE
            /\ UNCHANGED <<lineCenterTop, lineCenterMiddle, lineCenterBottom,
                           sharpTurnDetected, positionPercent>>
       ELSE \E r \in {detectLineMultiRegion(frame)} :
            LET mainPosition == IF r.bottom >= 0 THEN r.bottom
                                ELSE IF r.middle >= 0 THEN r.middle ELSE r.top
            IN  /\ captured' = TRUE
                /\ lineCenterTop' = r.top
                /\ lineCenterMiddle' = r.middle
                /\ lineCenterBottom' = r.bottom
                /\ sharpTurnDetected' = r.sharpTurnDetected
                /\ IF r.bottom >= 0 \/ r.middle >= 0 \/ r.top >= 0
                   THEN /\ w \in StaleWidths(frame.width)
                        /\ positionPercent' = CDiv(mainPosition * 100, w)
                        /\ staleRead' = TRUE
                   ELSE /\ w = frame.width
                        /\ positionPercent' = -1
                        /\ staleRead' = FALSE

----------------------------------------------------------------------------
(* The cycle loop of the 1-bit robot, from the state setup() leaves. *)

\* The clock stops the runs of Spec here, those of SpecSearch at MaxSearchTime.
MaxTime == 4400
MaxSearchTime == 6400

\* The initialisers of the globals of part_003 and simple_line_detection.ino.
WebZero ==
    /\ binaryThreshold = 128
    /\ invertColors = FALSE
    /\ settings = [brightness |-> 0, contrast |-> 2]
    /\ lineCenterX = -1
    /\ lineCenterTop = -1
    /\ lineCenterMiddle = -1
    /\ lineCenterBottom = -1
    /\ displacement = 0
    /\ turnDirection = "straight"
    /\ sharpTurnDetected = FALSE
    /\ serial = ""
    /\ request = ""
    /\ response = Respond(0, "", "")
    /\ positionPercent = -1
    /\ staleRead = FALSE

Zero ==
    /\ searchStartTime = 0
    /\ lastDetectionTime = 0
    /\ previousError = 0
    /\ integral = 0
    /\ captured = FALSE
    /\ result = EmptyResult
    /\ position = -1
    /\ control = 0
    /\ motors = stopMotors
    /\ searchEntryTime = 0
    /\ fb = NullFrame
    /\ binary = << >>
    /\ op = "none"
    /\ ret = EmptyResult
    /\ WebZero

Init ==
    /\ sketch = "monochrome_1bit_robot"
    /\ now = SetupDelay
    /\ currentState = "FOLLOWING"
    /\ state = "STOPPED"
    /\ Kp = PID_KP
    /\ Ki = PID_KI
    /\ Kd = PID_KD
    /\ threshold = DETECTION_THRESHOLD
    /\ minLineWidth = MIN_LINE_WIDTH
    /\ Zero

Next ==
    \E frame \in RobotFrames \cup {NullFrame}, d \in CycleTimes :
        now + d <= MaxTime /\ loop(frame, d)

Spec == Init /\ [][Next]_vars

\* The same loop over a longer time, on frames with no line or a centred line.
SearchFrames == {LineFrame(20, 5, 0, -1, {}), LineFrame(20, 5, 8, 12, {3, 4})}

NextSearch ==
    \E frame \in SearchFrames, d \in CycleTimes :
        now + d <= MaxSearchTime /\ loop(frame, d)

SpecSearch == Init /\ [][NextSearch]_vars

----------------------------------------------------------------------------
(* The cycle loop of the motor-control sketch, from the state setup() leaves. *)

InitMotor ==
    /\ sketch = "motor_control"
    /\ now = mc_SetupDelay
    /\ currentState = "STOPPED"
    /\ state = "FOLLOWING"
    /\ Kp = mc_Kp
    /\ Ki = mc_Ki
    /\ Kd = mc_Kd
    /\ threshold = 0
    /\ minLineWidth = 0
    /\ Zero

MaxMotorTime == 3600

NextMotor ==
    \E frame \in mc_Frames \cup {NullFrame}, d \in CycleTimes :
        now + d <= MaxMotorTime /\ mc_loop(frame, d)

SpecMotor == InitMotor /\ [][NextMotor]_vars

\* Either sketch with a motor: the board runs one of the two cycle loops.
InitLoops == Init \/ InitMotor

NextLoops == Next \/ NextMotor

SpecLoops == InitLoops /\ [][NextLoops]_vars

----------------------------------------------------------------------------
(* The PID controllers alone: calculatePID of either sketch, called with any   *)
(* sequence of errors, under the gains of the sketches and under the pure      *)
(* proportional gains Kp = 2.0, Ki = 0, Kd = 0.                                *)

\* <<Kp, Ki, Kd>> in halves: 3.0/0/1.5, 2.0/0/1.0, 2.0/0/0, 2.0/0.5/1.0.
GainChoices == {<<6, 0, 3>>, <<4, 0, 2>>, <<4, 0, 0>>, <<4, 1, 2>>}

\* The errors fed to calculatePID: deviations in -50..50, and 80.
PIDErrors == {-50, -10, 0, 10, 50, 80}

InitPID ==
    /\ sketch \in {"monochrome_1bit_robot", "motor_control"}
    /\ now = 0
    /\ currentState = "STOPPED"
    /\ state = "STOPPED"
    /\ \E g \in GainChoices : Kp = g[1] /\ Ki = g[2] /\ Kd = g[3]
    /\ threshold = 0
    /\ minLineWidth = 0
    /\ Zero

\* float control = calculatePID(error)
callCalculatePID(error) ==
    LET pid == IF sketch = "monochrome_1bit_robot"
               THEN calculatePID(error, previousError, integral, Kp, Ki, Kd)
               ELSE mc_calculatePID(error, previousError, integral, Kp, Ki, Kd)
    IN  /\ pid.integral <= MaxIntegral
        /\ pid.integral >= -MaxIntegral
        /\ previousError' = pid.previousError
        /\ integral' = pid.integral
        /\ control' = pid.control
        /\ op' = "calculatePID"
        /\ UNCHANGED <<sketch, now, currentState, state, searchStartTime,
                       lastDetectionTime, Kp, Ki, Kd, captured, result, position,
                       motors, searchEntryTime, threshold, minLineWidth, fb, binary,
                       ret, webVars>>

NextPID == \E error \in PIDErrors : callCalculatePID(error)

SpecPID == InitPID /\ [][NextPID]_vars

----------------------------------------------------------------------------
(* Either cycle loop on a floor without a line: every capture succeeds and     *)
(* shows no line. The Arduino core calls loop() again whenever it returns, so  *)
(* a cycle that can run does run.                                              *)

NextNoLine ==
    \E d \in CycleTimes :
        /\ now + d <= MaxSearchTime
        /\ \/ loop(LineFrame(20, 5, 0, -1, {}), d)
           \/ mc_loop(LineFrame(20, 3, 0, -1, {}), d)

SpecNoLine == InitLoops /\ [][NextNoLine]_vars /\ WF_vars(NextNoLine)

----------------------------------------------------------------------------
(* The library alone: one detector object, configured, and one frame.          *)

MaxWidth == 3
MaxHeight == 3
MaxMinWidth == 3

\* Pixels are 100 or 128 and the threshold 128 or 129: a pixel below, at and
\* (never) above the threshold.
PixelValues == {100, 128}
Thresholds == {128, 129}

\* A grayscale frame whose rows above row k are all `upper`, the others `lower`.
StripeFrame(w, h, k, upper, lower) ==
    [valid |-> TRUE, len |-> w * h, format |-> "PIXFORMAT_GRAYSCALE",
     width |-> w, height |-> h,
     buf |-> [i \in 1..(w * h) |->
                IF ((i - 1) \div w) < k THEN upper[(i - 1) % w]
                ELSE lower[(i - 1) % w]]]

StripeFrames ==
    UNION {{StripeFrame(w, h, k, upper, lower) :
                k \in 0..h,
                upper \in [0..(w - 1) -> PixelValues],
                lower \in [0..(w - 1) -> PixelValues]} :
           w \in 1..MaxWidth, h \in 1..MaxHeight}

\* Frames of 21, 22 and 37 rows, of which the loop scans 9, 9 and 15: with a
\* line in every row, in the rows from 30 on, and in no row.
TallFrames ==
    {LineFrame(2, 21, 0, 1, 0..20), LineFrame(2, 22, 0, 1, 0..21),
     LineFrame(2, 37, 0, 1, 0..36), LineFrame(2, 37, 0, 1, 30..36),
     LineFrame(2, 22, 0, -1, {})}

\* No frame, an empty frame, a JPEG frame and an RGB565 frame (two bytes a pixel).
OtherFrames ==
    {NullFrame,
     [valid |-> TRUE, len |-> 0, format |-> "PIXFORMAT_GRAYSCALE", width |-> 2,
      height |-> 2, buf |-> << >>],
     [valid |-> TRUE, len |-> 4, format |-> "PIXFORMAT_JPEG", width |-> 2,
      height |-> 2, buf |-> <<100, 100, 100, 100>>],
     [valid |-> TRUE, len |-> 8, format |-> "PIXFORMAT_RGB565", width |-> 2,
      height |-> 2, buf |-> <<100, 100, 100, 100, 100, 100, 100, 100>>]}

DetectFrames == StripeFrames \cup TallFrames \cup OtherFrames

\* 100-pixel rows with a line of 5 pixels (48..52), of 10 pixels (45..54, and
\* at either end of the row, 0..9 and 90..99) and of 21 pixels (40..60),
\* scanned under setMinLineWidth(10).
WideFrames ==
    {LineFrame(100, 2, 48, 52, {0, 1}), LineFrame(100, 2, 45, 54, {0, 1}),
     LineFrame(100, 2, 0, 9, {0, 1}), LineFrame(100, 2, 90, 99, {0, 1}),
     LineFrame(100, 2, 40, 60, {0, 1})}

InitDetect ==
    /\ sketch = "library"
    /\ now = 0
    /\ currentState = "STOPPED"
    /\ state = "STOPPED"
    /\ Kp = 0
    /\ Ki = 0
    /\ Kd = 0
    /\ searchStartTime = 0
    /\ lastDetectionTime = 0
    /\ previousError = 0
    /\ integral = 0
    /\ captured = FALSE
    /\ result = EmptyResult
    /\ position = -1
    /\ control = 0
    /\ motors = stopMotors
    /\ searchEntryTime = 0
    /\ threshold \in Thresholds
    /\ \/ minLineWidth \in 1..MaxMinWidth /\ fb \in DetectFrames
       \/ minLineWidth = 10 /\ fb \in WideFrames
    /\ binary = << >>
    /\ op = "none"
    /\ ret = EmptyResult
    /\ WebZero

loopVars == <<sketch, now, currentState, state, searchStartTime, lastDetectionTime,
              previousError, integral, Kp, Ki, Kd, captured, result, position,
              control, motors, searchEntryTime, webVars>>

\* MonoLineResult r = detector.detectLine(fb)
callDetectLine ==
    /\ sketch = "library"
    /\ op = "none"
    /\ op' = "detectLine"
    /\ ret' = detectLine(fb, threshold, minLineWidth)
    /\ UNCHANGED <<loopVars, threshold, minLineWidth, fb, binary>>

\* detector.convertToBinary(fb->buf, fb->width, fb->height, output)
callConvertToBinary ==
    /\ sketch = "library"
    /\ op = "none"
    /\ fb.valid /\ fb.format = "PIXFORMAT_GRAYSCALE" /\ fb.len = fb.width * fb.height
    /\ op' = "convertToBinary"
    /\ binary' = convertToBinary(fb.buf, fb.width, fb.height, threshold)
    /\ UNCHANGED <<loopVars, threshold, minLineWidth, fb, ret>>

\* MonoLineResult r = detector.detectLineInBinary(output, fb->width, fb->height)
callDetectLineInBinary ==
    /\ sketch = "library"
    /\ op = "convertToBinary"
    /\ op' = "detectLineInBinary"
    /\ ret' = detectLineInBinary(binary, fb.width, fb.height, minLineWidth)
    /\ UNCHANGED <<loopVars, threshold, minLineWidth, fb, binary>>

NextDetect == callDetectLine \/ callConvertToBinary \/ callDetectLineInBinary

SpecDetect == InitDetect /\ [][NextDetect]_vars

----------------------------------------------------------------------------
(* The web-server sketch: the requests the server handles, in any order.       *)

\* A grayscale frame of w x h pixels whose row r has the value `line` at the
\* columns cols[r] and the value `field` elsewhere.
PatternFrame(w, h, cols, line, field) ==
    [valid |-> TRUE, len |-> w * h, format |-> "PIXFORMAT_GRAYSCALE",
     width |-> w, height |-> h,
     buf |-> [i \in 1..(w * h) |->
                IF ((i - 1) % w) \in cols[(i - 1) \div w] THEN line ELSE field]]

\* The columns of the three scanned rows (1, 2 and 4 of 6) of a 12 x 6 frame.
RegionCols(t, m, b) ==
    [r \in 0..5 |-> IF r = 1 THEN t ELSE IF r = 2 THEN m ELSE IF r = 4 THEN b ELSE {}]

\* No line, a line at the left, a line at the right.
WebPatterns == {{}, 0..5, 6..11}

\* The frames /stream captures: a dark (40) line on a bright (200) field in
\* each region at the left, at the right or not at all; a row with two dark
\* patches, columns 0..5 and 8..11; bright lines on a dark field.
WebStreamFrames ==
    {PatternFrame(12, 6, RegionCols(t, m, b), 40, 200) :
        t \in WebPatterns, m \in WebPatterns, b \in WebPatterns}
    \cup {PatternFrame(12, 6, RegionCols({}, {}, (0..5) \cup (8..11)), 40, 200),
          PatternFrame(12, 6, RegionCols(0..5, 6..11, 6..11), 200, 40),
          PatternFrame(12, 6, RegionCols(6..11, 0..5, (0..5) \cup (8..11)), 200, 40)}

JpegFrame == [valid |-> TRUE, len |-> 4, format |-> "PIXFORMAT_JPEG", width |-> 2,
              height |-> 2, buf |-> <<100, 100, 100, 100>>]

\* A 4 x 3 frame whose dominant bins are 60 (6 pixels) and 200 (4 pixels), with
\* one pixel at 40 and one at 220.
DominantFrame ==
    [valid |-> TRUE, len |-> 12, format |-> "PIXFORMAT_GRAYSCALE", width |-> 4,
     height |-> 3, buf |-> <<60, 60, 60, 60, 40, 200, 200, 220, 200, 200, 60, 60>>]

\* A 4 x 3 frame with the bins 60 and 200 whose ten border pixels are five of
\* each: their mean is 130.
EqualBorderFrame ==
    [valid |-> TRUE, len |-> 12, format |-> "PIXFORMAT_GRAYSCALE", width |-> 4,
     height |-> 3, buf |-> <<60, 60, 60, 60, 60, 60, 60, 200, 200, 200, 200, 200>>]

\* The frames /calibrate captures: none, a JPEG frame, the two frames above, a
\* flat dark and a flat bright image, a dark line on a bright field (bins 40
\* and 200, and 60 and 200), a bright line on a dark field.
WebCalibFrames ==
    {NullFrame, JpegFrame, DominantFrame, EqualBorderFrame,
     PatternFrame(12, 6, RegionCols({}, {}, {}), 40, 40),
     PatternFrame(12, 6, RegionCols({}, {}, {}), 200, 200),
     PatternFrame(12, 6, RegionCols(0..5, 0..5, 0..5), 40, 200),
     PatternFrame(12, 6, RegionCols(3..8, 3..8, 3..8), 60, 200),
     PatternFrame(12, 6, RegionCols(3..8, 3..8, 3..8), 200, 40)}

ControlNames == {"threshold", "brightness", "contrast", "speed"}
ControlValues == {100, 300}

InitWeb ==
    /\ sketch = "web_server"
    /\ now = 0
    /\ currentState = "STOPPED"
    /\ state = "STOPPED"
    /\ Kp = 0
    /\ Ki = 0
    /\ Kd = 0
    /\ threshold = 0
    /\ minLineWidth = 0
    /\ Zero

\* Three of the frames of /stream: no line, a line that bends, a bright line.
WebFewFrames ==
    {PatternFrame(12, 6, RegionCols({}, {}, {}), 40, 200),
     PatternFrame(12, 6, RegionCols(0..5, 6..11, 0..5), 40, 200),
     PatternFrame(12, 6, RegionCols(0..5, 6..11, 6..11), 200, 40)}

NextWeb ==
    \/ handleRoot
    \/ \E frame \in WebFewFrames \cup {NullFrame, JpegFrame}, jpgOk \in BOOLEAN :
          handleStream(frame, jpgOk)
    \/ \E hasParams \in BOOLEAN, name \in ControlNames, value \in ControlValues :
          handleControl(hasParams, name, value)
    \/ \E frame \in WebCalibFrames : handleCalibrate(frame)
    \/ handleStatus

SpecWeb == InitWeb /\ [][NextWeb]_vars

\* The same server under /stream requests on all the frames, recalibrated in
\* between on a dark line and on a bright line.
StreamCalibFrames ==
    {PatternFrame(12, 6, RegionCols(0..5, 0..5, 0..5), 40, 200),
     PatternFrame(12, 6, RegionCols(3..8, 3..8, 3..8), 200, 40)}

\* A 100 x 6 frame with the dark line at the columns 45..55 of every region.
WideStreamFrames ==
    {PatternFrame(100, 6, RegionCols(45..55, 45..55, 45..55), 40, 200)}

\* A 12 x 6 frame with a dark line of exactly 5 pixels, the columns 3..7, in
\* every region.
StreamExactWidthFrame ==
    PatternFrame(12, 6, RegionCols(3..7, 3..7, 3..7), 40, 200)

NextStream ==
    \/ \E frame \in WebStreamFrames \cup WideStreamFrames \cup {StreamExactWidthFrame} :
          handleStream(frame, TRUE)
    \/ \E frame \in StreamCalibFrames : handleCalibrate(frame)

SpecStream == InitWeb /\ [][NextStream]_vars

----------------------------------------------------------------------------
(* The simple detection sketch: its cycle loop.                                *)

\* No line, a line at the left, at the right, and two dark patches, columns
\* 0..11 and 14..23.
SimplePatterns == {{}, 0..11, 12..23, (0..11) \cup (14..23)}

\* 24 x 6 frames, rows 1, 2 and 4 scanned.
SimpleFrames ==
    {PatternFrame(24, 6, RegionCols(t, m, b), 40, 200) :
        t \in SimplePatterns, m \in SimplePatterns, b \in SimplePatterns}

InitSimple ==
    /\ sketch = "simple_line_detection"
    /\ now = 0
    /\ currentState = "STOPPED"
    /\ state = "STOPPED"
    /\ Kp = 0
    /\ Ki = 0
    /\ Kd = 0
    /\ threshold = 0
    /\ minLineWidth = 0
    /\ Zero

\* A 24 x 6 frame with a dark line of exactly MIN_LINE_WIDTH = 10 pixels, the
\* columns 7..16, in every region.
SimpleExactWidthFrame ==
    PatternFrame(24, 6, RegionCols(7..16, 7..16, 7..16), 40, 200)

NextSimple ==
    \E frame \in SimpleFrames \cup {SimpleExactWidthFrame, NullFrame} :
        \E w \in StaleWidths(frame.width) : sl_loop(frame, w)

SpecSimple == InitSimple /\ [][NextSimple]_vars

----------------------------------------------------------------------------
(* The row scanners of the repository side by side: the library, the web       *)
(* server's /stream and the simple detection sketch, each on its own board.    *)

InitScanners == InitDetect \/ InitWeb \/ InitSimple

NextScanners == NextDetect \/ NextStream \/ NextSimple

SpecScanners == InitScanners /\ [][NextScanners]_vars

----------------------------------------------------------------------------
(* Properties *)

Searching == {"SEARCHING_LEFT", "SEARCHING_RIGHT"}

\* The last cycle of the 1-bit robot captured a frame and did not trust a line in it.
NoLineCycle == captured /\ ~(result.detected /\ result.confidence >= CONFIDENCE_MIN)

\* The last cycle of the 1-bit robot captured a frame and trusted the line in it.
LineCycle == captured /\ result.detected /\ result.confidence >= CONFIDENCE_MIN

\* C1: once currentState is LINE_LOST, it is LINE_LOST after every later cycle
\* of the loop, whatever the frame shows.
C1_LostIsTerminal ==
    [][currentState = "LINE_LOST" => currentState' = "LINE_LOST"]_vars

\* C2 as stated: from FOLLOWING, SEARCHING_LEFT or SEARCHING_RIGHT, a cycle whose
\* result has detected = true ends with currentState = FOLLOWING.
C2_DetectedResumes ==
    [][(currentState \in Searching \cup {"FOLLOWING"} /\ captured' /\ result'.detected)
        => currentState' = "FOLLOWING"]_vars

\* C2 amended: from FOLLOWING, SEARCHING_LEFT or SEARCHING_RIGHT, a cycle whose
\* result has detected = true and confidence >= CONFIDENCE_MIN (40) ends with
\* currentState = FOLLOWING, whatever time has elapsed in the state.
C2_TrustedDetectionResumes ==
    [][(currentState \in Searching \cup {"FOLLOWING"} /\ captured' /\ result'.detected
        /\ result'.confidence >= CONFIDENCE_MIN)
        => currentState' = "FOLLOWING"]_vars

\* A trusted detection one cycle (100 ms) after the search timer was started:
\* the robot was searching and is FOLLOWING again.
C2_Witness ==
    /\ currentState = "FOLLOWING"
    /\ LineCycle
    /\ lastDetectionTime = now
    /\ searchStartTime > 0
    /\ now - searchStartTime = 100

\* C3: in FOLLOWING, a cycle with no detection leaves the state FOLLOWING when
\* fewer than 300 ms have elapsed without a detection (counted from the entry
\* into FOLLOWING at start-up when there was no detection yet), and moves it to
\* SEARCHING_LEFT when 300 ms or more have elapsed.
C3_LostAfter300 ==
    [][(currentState = "FOLLOWING" /\ NoLineCycle')
        => LET since == IF lastDetectionTime = 0 THEN SetupDelay
                        ELSE lastDetectionTime
               elapsed == now' - since
           IN  /\ elapsed < 300 => currentState' = "FOLLOWING"
               /\ elapsed >= 300 => currentState' = "SEARCHING_LEFT"]_vars

\* C4: a change from SEARCHING_LEFT or SEARCHING_RIGHT to FOLLOWING computes the
\* control value of that cycle from previousError = 0 and integral = 0, in the
\* 1-bit robot sketch and in the motor-control sketch.
C4_RecoveryResetsPID ==
    [][/\ (currentState \in Searching /\ currentState' = "FOLLOWING")
            => LET pid == calculatePID(result'.deviation, 0, 0, Kp, Ki, Kd)
               IN  /\ control' = pid.control
                   /\ previousError' = pid.previousError
                   /\ integral' = pid.integral
       /\ (state \in Searching /\ state' = "FOLLOWING")
            => LET pid == mc_calculatePID(position' - 50, 0, 0, Kp, Ki, Kd)
               IN  /\ control' = pid.control
                   /\ previousError' = pid.previousError
                   /\ integral' = pid.integral]_vars

\* C5 as stated: with no detection, SEARCHING_RIGHT becomes LINE_LOST (motors
\* stopped) once the search has lasted 1500 ms from the entry into SEARCHING_LEFT.
C5_LostAfter1500Total ==
    [][(currentState = "SEARCHING_RIGHT" /\ NoLineCycle'
        /\ now' - searchEntryTime >= 1500)
        => (currentState' = "LINE_LOST" /\ motors' = stopMotors)]_vars

\* C5 amended: with no detection, SEARCHING_RIGHT becomes LINE_LOST in the first
\* cycle in which more than 1500 ms have elapsed since the entry into
\* SEARCHING_RIGHT (where the search timer was restarted), and not before; that
\* change commands the motors to stop.
C5_LostAfter1500InSearchRight ==
    [][(currentState = "SEARCHING_RIGHT" /\ NoLineCycle')
        => IF now' - searchStartTime > 1500
           THEN currentState' = "LINE_LOST" /\ motors' = stopMotors
           ELSE currentState' = "SEARCHING_RIGHT"]_vars

\* LINE_LOST entered in this cycle: 1600 ms after the entry into SEARCHING_RIGHT,
\* with the motors stopped, the search having lasted more than 2300 ms in all.
C5_Witness ==
    /\ currentState = "LINE_LOST"
    /\ NoLineCycle
    /\ now - searchStartTime = 1600
    /\ now - searchEntryTime > 2300
    /\ motors = stopMotors

\* C6: SEARCHING_LEFT is entered with turnLeft; with no detection it changes to
\* SEARCHING_RIGHT only when more than 800 ms have elapsed since the search
\* started, the change commands turnRight and restarts the search timer; and
\* SEARCHING_LEFT never changes to LINE_LOST.
C6_SearchLeftToRight ==
    [][/\ (currentState # "SEARCHING_LEFT" /\ currentState' = "SEARCHING_LEFT")
            => (motors' = turnLeft /\ searchStartTime' = now')
       /\ currentState = "SEARCHING_LEFT" => currentState' # "LINE_LOST"
       /\ (currentState = "SEARCHING_LEFT" /\ currentState' = "SEARCHING_RIGHT")
            => /\ NoLineCycle'
               /\ now' - searchStartTime > 800
               /\ searchStartTime = searchEntryTime
               /\ motors' = turnRight
               /\ searchStartTime' = now'
       /\ (currentState = "SEARCHING_LEFT" /\ NoLineCycle'
           /\ now' - searchStartTime < 800)
            => currentState' = "SEARCHING_LEFT"]_vars

\* SEARCHING_RIGHT entered in this cycle, more than 800 ms after the search began.
C6_Witness ==
    /\ currentState = "SEARCHING_RIGHT"
    /\ NoLineCycle
    /\ searchStartTime = now
    /\ now - searchEntryTime > 800
    /\ motors = turnRight

\* C7: after any sequence of calculatePID calls with errors in -50..50 or 80, the
\* value returned lies in [-100, 100] (200 halves); under Kp = 2.0, Ki = 0,
\* Kd = 0 it is clamp(2 * error, -100, 100): 20 for the error 10, 100 for 80.
C7_ControlBounded ==
    /\ control >= -200 /\ control <= 200
    /\ (op = "calculatePID" /\ Kp = 4 /\ Ki = 0 /\ Kd = 0)
        => LET twice == 2 * previousError          \* 2 * error
           IN  /\ 2 * twice > 200 => control = 200
               /\ 2 * twice < -200 => control = -200
               /\ (2 * twice <= 200 /\ 2 * twice >= -200) => control = 2 * twice
               /\ previousError = 10 => control = 40
               /\ previousError = 80 => control = 200

\* calculatePID(80) under the pure proportional gains returned 100.
C7_Witness ==
    /\ op = "calculatePID"
    /\ Kp = 4 /\ Ki = 0 /\ Kd = 0
    /\ previousError = 80
    /\ control = 200

\* C8: in every reachable state of every PID controller, the integral lies in
\* [-50, 50].
C8_IntegralLimited == integral >= -50 /\ integral <= 50

\* C9: the confidence detectLine and detectLineInBinary return lies in [0, 100],
\* and its consistency part (confidence less the width score) is at most 70.
C9_ConfidenceBounded ==
    op \in {"detectLine", "detectLineInBinary"}
        => /\ ret.confidence >= 0 /\ ret.confidence <= 100
           /\ ret.confidence - WidthScore(ret.width, minLineWidth) <= 70

\* C10 as stated: every result detectLine and detectLineInBinary return, detected
\* or not, has deviation = position - 50.
C10_DeviationIdentity ==
    op \in {"detectLine", "detectLineInBinary"}
        => ret.deviation = ret.position - 50

\* C10 amended: every result detectLine and detectLineInBinary return with
\* detected = true has deviation = position - 50; a result with detected = false
\* (the early returns included) has position = 0 and deviation = 0.
C10_DeviationIdentityWhenDetected ==
    op \in {"detectLine", "detectLineInBinary"}
        => IF ret.detected THEN ret.deviation = ret.position - 50
           ELSE ret.position = 0 /\ ret.deviation = 0

\* detectLine found a line off the centre.
C10_Witness ==
    /\ op = "detectLine"
    /\ ret.detected
    /\ ret.deviation # 0
    /\ ret.deviation = ret.position - 50

\* The histogram of the frame has no sample in [0,128) or none in [128,256), or
\* the frame is missing or not grayscale.
CalibrationCannotSucceed(frame) ==
    \/ ~frame.valid
    \/ frame.format # "PIXFORMAT_GRAYSCALE"
    \/ \A i \in DOMAIN frame.buf : frame.buf[i] >= 128
    \/ \A i \in DOMAIN frame.buf : frame.buf[i] < 128

\* C11: a /calibrate request whose capture fails, is not grayscale, or has no
\* sample in one half of the histogram leaves binaryThreshold and invertColors
\* exactly as they were.
C11_FailedCalibrationKeepsState ==
    [][(request' = "/calibrate" /\ CalibrationCannotSucceed(fb'))
        => (binaryThreshold' = binaryThreshold /\ invertColors' = invertColors)]_vars

\* A calibration on a flat image has failed after an earlier one had set the
\* threshold 120 and the inverted polarity: both are still in place.
C11_Witness ==
    /\ request = "/calibrate"
    /\ fb.valid /\ fb.format = "PIXFORMAT_GRAYSCALE"
    /\ CalibrationCannotSucceed(fb)
    /\ serial = "Calibration failed: could not find two peaks"
    /\ binaryThreshold = 120
    /\ invertColors

\* C12: the response to a /calibrate request whose calibration failed differs
\* from the response to one whose calibration succeeded (200, "Calibration
\* complete").
C12_FailureReported ==
    (request = "/calibrate" /\ CalibrationCannotSucceed(fb))
        => response # [code |-> 200, type |-> "text/plain",
                       body |-> "Calibration complete"]

\* C13: after detectCurveAndTurn, with all three regions detected the
\* displacement is ((near - middle) + (middle - far) + 0.5 * (near - far)) / 3;
\* with exactly two regions detected it is the position difference of the pair
\* (near = bottom, far = top; the displacement is held in sixths).
C13_Displacement ==
    (request = "/stream" /\ response.code = 200)
        => LET T == lineCenterTop
               M == lineCenterMiddle
               B == lineCenterBottom
           IN  /\ (T >= 0 /\ M >= 0 /\ B >= 0)
                    => displacement = 2 * (B - M) + 2 * (M - T) + (B - T)
               /\ (T < 0 /\ M >= 0 /\ B >= 0) => displacement = 6 * (B - M)
               /\ (T >= 0 /\ M >= 0 /\ B < 0) => displacement = 6 * (M - T)
               /\ (T >= 0 /\ M < 0 /\ B >= 0) => displacement = 6 * (B - T)

C15_NonGrayscaleRejected ==
    (op = "detectLine"
     /\ (~fb.valid \/ fb.len = 0 \/ fb.format # "PIXFORMAT_GRAYSCALE"))
        => ~ret.detected

\* C16: no cycle of a loop reads a field or a pixel of the frame after
\* esp_camera_fb_return has handed the frame back.
C16_NoReadAfterReturn == ~staleRead

\* C17: a cycle whose capture fails commands the motors to stop (all four PWM
\* values 0) and leaves currentState / state, searchStartTime,
\* lastDetectionTime, previousError and integral as they were, in the 1-bit
\* robot sketch and in the motor-control sketch.
C17_FailedCaptureSkipsCycle ==
    [][~captured'
        => /\ motors' = [lf |-> 0, lb |-> 0, rf |-> 0, rb |-> 0]
           /\ UNCHANGED <<currentState, state, searchStartTime, lastDetectionTime,
                          previousError, integral>>]_vars

\* A capture failed during a search of the 1-bit robot, after a line had been
\* followed off the centre: the motors are stopped, the state is still
\* SEARCHING_LEFT and the controller state is still in place.
C17_Witness ==
    /\ ~captured
    /\ currentState = "SEARCHING_LEFT"
    /\ motors = [lf |-> 0, lb |-> 0, rf |-> 0, rb |-> 0]
    /\ previousError # 0
    /\ lastDetectionTime > 0
    /\ searchStartTime > lastDetectionTime

\* The frame handed to the library is one detectLine scans.
Scannable ==
    fb.valid /\ fb.len > 0
    /\ fb.format \in {"PIXFORMAT_GRAYSCALE", "PIXFORMAT_RGB565"}

\* The pixels of row `row` of the library's frame that are below the threshold.
LibLine(row) == {x \in 0..(fb.width - 1) : fb.buf[row * fb.width + x + 1] < threshold}

\* The scanned rows whose interval from the first to the last dark pixel is at
\* least minLineWidth long.
LibCounted ==
    {row \in ScannedRows(fb.height) :
        LibLine(row) # {}
        /\ SetMax(LibLine(row)) - SetMin(LibLine(row)) + 1 >= minLineWidth}

\* The row of the test case: 100 pixels, dark at 48..52 only.
NarrowRowFrame == LineFrame(100, 2, 48, 52, {0, 1})

\* C18: a scanned row is counted only if end - start + 1 >= minLineWidth, and
\* the result has detected = true exactly when some row is counted; a 100-pixel
\* row whose interval is [48,52] is not counted under minLineWidth = 10.
C18_NarrowRowsNotCounted ==
    (op \in {"detectLine", "detectLineInBinary"} /\ Scannable)
        => /\ ret.detected <=> LibCounted # {}
           /\ (fb = NarrowRowFrame /\ minLineWidth = 10) => ~ret.detected

\* detectLine has scanned the 100-pixel row with the interval [48,52] under
\* minLineWidth = 10 and found no line.
C18_Witness ==
    /\ op = "detectLine"
    /\ fb = NarrowRowFrame
    /\ minLineWidth = 10
    /\ threshold = 128
    /\ ~ret.detected

\* The interval from the first to the last pixel of a non-empty set of columns,
\* and the first contiguous run of the set.
MergedInterval(line) == [start |-> SetMin(line), end |-> SetMax(line)]
FirstRunInterval(line) ==
    [start |-> SetMin(line),
     end |-> SetMax({x \in line : \A y \in SetMin(line)..x : y \in line})]

\* The centre a region scanner reports for the rows `rows`, whose intervals are
\* iv[row] (start = -1: no line pixel), counting those with end - start >= gap.
RegionCentre(iv, rows, gap) ==
    LET counted == {r \in rows : iv[r].start # -1 /\ iv[r].end - iv[r].start >= gap}
        n == Cardinality(counted)
    IN  IF n = 0 THEN -1
        ELSE CDiv(CDiv(Sum([r \in counted |-> iv[r].start], counted), n)
                  + CDiv(Sum([r \in counted |-> iv[r].end], counted), n), 2)

\* The line-coloured pixels of a row of the frame /stream captured, and of the
\* frame the simple sketch captured.
WebLine(row) ==
    {x \in 0..(fb.width - 1) :
        IF invertColors THEN fb.buf[row * fb.width + x + 1] >= binaryThreshold
        ELSE fb.buf[row * fb.width + x + 1] < binaryThreshold}
SimpleLine(row) ==
    {x \in 0..(fb.width - 1) : fb.buf[row * fb.width + x + 1] < 128}

NoInterval == [start |-> -1, end |-> -1]

WebMerged ==
    [r \in 0..(fb.height - 1) |->
        IF WebLine(r) = {} THEN NoInterval ELSE MergedInterval(WebLine(r))]
WebFirstRun ==
    [r \in 0..(fb.height - 1) |->
        IF WebLine(r) = {} THEN NoInterval ELSE FirstRunInterval(WebLine(r))]
SimpleMerged ==
    [r \in 0..(fb.height - 1) |->
        IF SimpleLine(r) = {} THEN NoInterval ELSE MergedInterval(SimpleLine(r))]
SimpleFirstRun ==
    [r \in 0..(fb.height - 1) |->
        IF SimpleLine(r) = {} THEN NoInterval ELSE FirstRunInterval(SimpleLine(r))]

\* The three region centres are those of the intervals iv, counted from `gap` on.
RegionsAgree(iv, gap) ==
    /\ lineCenterTop = RegionCentre(iv, RegionRows(CDiv(fb.height, 6),
                                                   CDiv(fb.height, 3)), gap)
    /\ lineCenterMiddle = RegionCentre(iv, RegionRows(CDiv(fb.height, 3),
                                                      CDiv(2 * fb.height, 3)), gap)
    /\ lineCenterBottom = RegionCentre(iv, RegionRows(CDiv(2 * fb.height, 3),
                                                      CDiv(5 * fb.height, 6)), gap)

\* The library scanner takes the interval from the first to the last dark pixel
\* of each row: the position is the mean of the centres of these intervals.
LibraryMerges ==
    (op \in {"detectLine", "detectLineInBinary"} /\ Scannable)
        => IF LibCounted = {} THEN ~ret.detected
           ELSE /\ ret.detected
                /\ ret.position =
                     CDiv(Sum([r \in LibCounted |->
                                 CDiv(CDiv(SetMin(LibLine(r)) + SetMax(LibLine(r)), 2)
                                      * 100, fb.width)], LibCounted),
                          Cardinality(LibCounted))

WebScanned == sketch = "web_server" /\ request = "/stream" /\ response.code = 200
SimpleScanned == sketch = "simple_line_detection" /\ captured

\* C19 as stated: the library scanner and the multi-region scanners alike take
\* the interval from the first to the last line-coloured pixel of the row.
C19_AllScannersMerge ==
    /\ LibraryMerges
    /\ WebScanned => RegionsAgree(WebMerged, 5)
    /\ SimpleScanned => RegionsAgree(SimpleMerged, 10)

\* C19 amended: the library scanner takes the interval from the first to the
\* last dark pixel of the row, merging disjoint patches; the multi-region
\* scanners take the first contiguous run of line-coloured pixels of the row.
C19_LibraryMergesRegionsFirstRun ==
    /\ LibraryMerges
    /\ WebScanned => RegionsAgree(WebFirstRun, 5)
    /\ SimpleScanned => RegionsAgree(SimpleFirstRun, 10)

\* detectLine on a 3-pixel row dark at the columns 0 and 2 only, under
\* minLineWidth = 3: the two patches count as one interval [0,2].
C19_Witness ==
    /\ op = "detectLine"
    /\ fb.valid /\ fb.width = 3 /\ fb.height = 1
    /\ LibLine(0) = {0, 2}
    /\ minLineWidth = 3
    /\ ret.detected
    /\ ret.position = 33

\* C20 as stated: the width is the mean, over the counted rows, of the interval
\* length end - start + 1.
C20_WidthIsMeanIntervalLength ==
    (op \in {"detectLine", "detectLineInBinary"} /\ Scannable /\ ret.detected)
        => ret.width =
             CDiv(Sum([r \in LibCounted |->
                         SetMax(LibLine(r)) - SetMin(LibLine(r)) + 1], LibCounted),
                  Cardinality(LibCounted))

\* C20 amended: the width is the mean, over the counted rows, of the number of
\* dark pixels of the row, which is the interval length only for a row whose
\* dark pixels are contiguous.
C20_WidthIsMeanDarkCount ==
    (op \in {"detectLine", "detectLineInBinary"} /\ Scannable /\ ret.detected)
        => ret.width =
             CDiv(Sum([r \in LibCounted |-> Cardinality(LibLine(r))], LibCounted),
                  Cardinality(LibCounted))

\* detectLineInBinary on a 3-pixel row dark at the columns 0 and 2 only: the
\* interval is 3 long, the width reported is 2.
C20_Witness ==
    /\ op = "detectLineInBinary"
    /\ fb.width = 3 /\ fb.height = 1
    /\ LibLine(0) = {0, 2}
    /\ ret.detected
    /\ ret.width = 2

\* The number of regions the last scan detected the line in.
RegionsDetected ==
    Cardinality({i \in 1..3 :
                   <<lineCenterTop, lineCenterMiddle, lineCenterBottom>>[i] >= 0})

\* A /stream request that ran detectCurveAndTurn.
StreamScanned ==
    /\ sketch = "web_server"
    /\ request = "/stream"
    /\ fb.valid
    /\ fb.format = "PIXFORMAT_GRAYSCALE"

\* C21: when fewer than two of the three regions are detected, the curve
\* analysis leaves curveAngle = 0 (the displacement it is the arctangent of is
\* 0), turnDirection = straight and sharpTurnDetected = false, whatever the
\* previous frame left; the simple sketch's detectLineMultiRegion likewise
\* leaves sharpTurnDetected = false.
C21_FewRegionsReset ==
    /\ (StreamScanned /\ RegionsDetected < 2)
          => (displacement = 0 /\ turnDirection = "straight" /\ ~sharpTurnDetected)
    /\ (sketch = "simple_line_detection" /\ captured /\ RegionsDetected < 2)
          => ~sharpTurnDetected

\* A /stream frame with the line in the bottom region only, at the right.
C21_Witness ==
    /\ StreamScanned
    /\ lineCenterTop = -1 /\ lineCenterMiddle = -1 /\ lineCenterBottom = 8
    /\ turnDirection = "straight"
    /\ ~sharpTurnDetected

\* C22: after detectCurveAndTurn on at least two detected regions the turn is
\* straight and not sharp when |displacement| < 5% of the width (displacement
\* in sixths: 10 * |d| < 3 * width), else right for a positive and left for a
\* negative displacement; three regions at equal positions give displacement 0
\* (angle 0), straight, not sharp.
C22_TurnClassification ==
    (StreamScanned /\ RegionsDetected >= 2)
        => /\ IF 10 * Abs(displacement) < 3 * fb.width
              THEN turnDirection = "straight" /\ ~sharpTurnDetected
              ELSE /\ displacement > 0 => turnDirection = "right"
                   /\ displacement < 0 => turnDirection = "left"
                   /\ displacement # 0
           /\ (lineCenterTop = lineCenterMiddle /\ lineCenterMiddle = lineCenterBottom)
                 => (displacement = 0 /\ turnDirection = "straight"
                     /\ ~sharpTurnDetected)

\* The three regions of a 100-pixel frame all detected at 50.
C22_Witness ==
    /\ StreamScanned
    /\ fb.width = 100
    /\ lineCenterTop = 50 /\ lineCenterMiddle = 50 /\ lineCenterBottom = 50
    /\ displacement = 0
    /\ turnDirection = "straight"
    /\ ~sharpTurnDetected

\* A /calibrate request whose calibration succeeded.
CalibrationSucceeded ==
    /\ sketch = "web_server"
    /\ request = "/calibrate"
    /\ serial = "Calibration complete"

\* The tallest bins of the histogram of fb among the bins lo..hi: the bins
\* that are not empty and that no bin of lo..hi exceeds (an empty bin exceeds
\* none of them).
TallestBins(lo, hi) ==
    LET present == {fb.buf[i] : i \in DOMAIN fb.buf} \cap (lo..hi)
    IN  {v \in present :
            \A u \in present : Histogram(fb.buf, u) <= Histogram(fb.buf, v)}

\* C23: after a successful calibration the threshold is the integer midpoint
\* of a tallest histogram bin in [0,128) and a tallest bin in [128,256), and
\* lies within 0..255; dominant bins at 60 and 200 give 130.
C23_ThresholdIsMidpoint ==
    CalibrationSucceeded
        => /\ \E peakA \in TallestBins(0, 127), peakB \in TallestBins(128, 255) :
                 binaryThreshold = (peakA + peakB) \div 2
           /\ binaryThreshold \in 0..255
           /\ (fb = DominantFrame => binaryThreshold = 130)

\* The calibration on the frame with the dominant bins 60 and 200.
C23_Witness ==
    /\ CalibrationSucceeded
    /\ fb = DominantFrame
    /\ binaryThreshold = 130

\* The indices in fb.buf of the pixels of the first and last row and of the
\* first and last column.
BorderPixels ==
    {i \in DOMAIN fb.buf :
        \/ (i - 1) \div fb.width \in {0, fb.height - 1}
        \/ (i - 1) % fb.width \in {0, fb.width - 1}}

\* C24: after a successful calibration the polarity is inverted exactly when
\* the mean of the border pixels is below the new threshold (sum < threshold *
\* count), and normal otherwise, a mean equal to the threshold included.
C24_PolarityFromBorderMean ==
    CalibrationSucceeded
        => (invertColors
              <=> Sum(fb.buf, BorderPixels) < binaryThreshold * Cardinality(BorderPixels))

\* The calibration on the frame whose border mean equals the new threshold 130:
\* the polarity is normal.
C24_Witness ==
    /\ CalibrationSucceeded
    /\ fb = EqualBorderFrame
    /\ binaryThreshold = 130
    /\ Sum(fb.buf, BorderPixels) = 130 * Cardinality(BorderPixels)
    /\ ~invertColors

\* C25: a result of detectLine or detectLineInBinary with detected = true has
\* its position in [0,100].
C25_PositionBounded ==
    (op \in {"detectLine", "detectLineInBinary"} /\ ret.detected)
        => (ret.position >= 0 /\ ret.position <= 100)

\* detectLine on the 100-pixel row whose line is at the right end, 90..99: the
\* position is 94.
C25_Witness ==
    /\ op = "detectLine"
    /\ fb = LineFrame(100, 2, 90, 99, {0, 1})
    /\ ret.detected
    /\ ret.position = 94

\* The row of the centring case: 100 pixels, dark at 40..60.
CentredRowFrame == LineFrame(100, 2, 40, 60, {0, 1})

\* The position scanRowForLine gives a counted row: the integer percentage of
\* the integer centre of the interval.
RowPercent(row) ==
    (100 * ((SetMin(LibLine(row)) + SetMax(LibLine(row))) \div 2)) \div fb.width

\* C26: the position returned is the mean of the per-row positions 100 *
\* ((start + end) / 2) / width of the counted rows; a 100-pixel row with the
\* interval [40,60] gives position 50 and deviation 0.
C26_RowPosition ==
    (op \in {"detectLine", "detectLineInBinary"} /\ Scannable /\ ret.detected)
        => /\ ret.position
                = Sum([r \in LibCounted |-> RowPercent(r)], LibCounted)
                      \div Cardinality(LibCounted)
           /\ fb = CentredRowFrame => (ret.position = 50 /\ ret.deviation = 0)

\* detectLine on the 100-pixel row with the interval [40,60] under
\* minLineWidth = 10.
C26_Witness ==
    /\ op = "detectLine"
    /\ fb = CentredRowFrame
    /\ minLineWidth = 10
    /\ ret.detected
    /\ ret.position = 50
    /\ ret.deviation = 0

\* The machine has given up the search: LINE_LOST in the 1-bit robot, STOPPED
\* in the motor-control sketch.
SearchGivenUp ==
    \/ sketch = "monochrome_1bit_robot" /\ currentState = "LINE_LOST"
    \/ sketch = "motor_control" /\ state = "STOPPED"

\* C27: when every capture succeeds and shows no line and the cycles keep
\* running, the machine started in FOLLOWING eventually gives up the search
\* (LINE_LOST), and from then on stays there with the motors commanded to stop
\* by every cycle.
C27_EventuallyLostAndStopped ==
    /\ <>SearchGivenUp
    /\ [](SearchGivenUp => motors = stopMotors)
    /\ [][SearchGivenUp => SearchGivenUp']_vars

\* The 1-bit robot in LINE_LOST after further cycles without a line, up to the
\* end of the time the model covers.
C27_Witness ==
    /\ sketch = "monochrome_1bit_robot"
    /\ currentState = "LINE_LOST"
    /\ captured
    /\ now = MaxSearchTime
    /\ motors = stopMotors

\* C28: a cycle that captured a frame and ends in SEARCHING_LEFT leaves
\* turnLeft as the last motor command, one that ends in SEARCHING_RIGHT leaves
\* turnRight, whatever cycles and failed captures came before.
C28_SearchStateTurns ==
    (sketch = "monochrome_1bit_robot" /\ captured)
        => /\ currentState = "SEARCHING_LEFT" => motors = turnLeft
           /\ currentState = "SEARCHING_RIGHT" => motors = turnRight

\* Every region with a scanned row whose interval iv[row] has the length end -
\* start + 1 >= minW has a centre.
RegionsCountWideRows(iv, minW) ==
    LET Wide(rows) == \E r \in rows : iv[r].start # -1 /\ iv[r].end - iv[r].start + 1 >= minW
    IN  /\ Wide(RegionRows(CDiv(fb.height, 6), CDiv(fb.height, 3)))
             => lineCenterTop >= 0
        /\ Wide(RegionRows(CDiv(fb.height, 3), CDiv(2 * fb.height, 3)))
             => lineCenterMiddle >= 0
        /\ Wide(RegionRows(CDiv(2 * fb.height, 3), CDiv(5 * fb.height, 6)))
             => lineCenterBottom >= 0

\* C29: in every row scanner a scanned row with line pixels whose interval from
\* the first to the last line pixel has the length end - start + 1 >= the
\* minimum line width (minLineWidth in the library, 5 in the web server, 10 in
\* the simple sketch) is counted, so the scan reports a detection.
C29_WideRowsCounted ==
    /\ (op \in {"detectLine", "detectLineInBinary"} /\ Scannable /\ LibCounted # {})
          => ret.detected
    /\ WebScanned => RegionsCountWideRows(WebMerged, 5)
    /\ SimpleScanned => RegionsCountWideRows(SimpleMerged, sl_MIN_LINE_WIDTH)

\* Bit i of the packed buffer, the most significant bit of a byte first.
PackedBit(i) == (binary[(i \div 8) + 1] \div 2 ^ (7 - (i % 8))) % 2

\* C30: the packed output of convertToBinary has bit i (MSB first) set exactly
\* when pixel i >= threshold, and detectLineInBinary on it returns the result
\* detectLine returns on the grayscale image: detected, position, width,
\* confidence and deviation.
C30_BinaryPathEqualsGrayPath ==
    /\ op \in {"convertToBinary", "detectLineInBinary"}
          => /\ Len(binary) = (fb.width * fb.height + 7) \div 8
             /\ \A i \in 0..(fb.width * fb.height - 1) :
                   PackedBit(i) = 1 <=> fb.buf[i + 1] >= threshold
    /\ op = "detectLineInBinary"
          => ret = detectLine(fb, threshold, minLineWidth)

\* detectLineInBinary found the line of an image of more than one byte of bits
\* that has a pixel below and a pixel at the threshold.
C30_Witness ==
    /\ op = "detectLineInBinary"
    /\ fb.width * fb.height > 8
    /\ \E i \in DOMAIN fb.buf : fb.buf[i] = threshold
    /\ \E i \in DOMAIN fb.buf : fb.buf[i] < threshold
    /\ ret.detected
    /\ ret = detectLine(fb, threshold, minLineWidth)

====
